---------------------------- MODULE Spec2Model ----------------------------
(***************************************************************************)
(* colorific.extract_colors: the main colors of an image.                  *)
(*                                                                         *)
(* The model starts from the image as it is after line 116 (RGB, cropped,  *)
(* quantized) and follows extract_colors statement by statement: the       *)
(* pixel histogram, the greedy aggregation loop (one action per            *)
(* iteration), the ranking by prominence, detect_background, the           *)
(* saturation filter, the prominence/count cut and the final truncation.   *)
(*                                                                         *)
(* Numbers.  A prominence n / float(n_pixels) is kept as the exact         *)
(* fraction [num |-> n, den |-> n_pixels]; thresholds are integers in the  *)
(* unit named by the parameter (per mille for min_saturation, percent for  *)
(* min_prominence and BACKGROUND_PROMINENCE) and every comparison is done  *)
(* by cross multiplication, which decides as the floating-point           *)
(* comparison does for the pixel counts and thresholds used here.          *)
(* Distances are integers in the unit of MIN_DISTANCE.                     *)
(*                                                                         *)
(* Dictionaries.  A dict is a function; the order in which Python 2        *)
(* iterates a dict is not defined by the program, so wherever the code     *)
(* sorts (stably) or scans a dict the model allows every order of the      *)
(* entries that compare equal.                                             *)
(***************************************************************************)
EXTENDS Integers, Sequences, FiniteSets, TLC

VARIABLES
    im,             \* the preprocessed image: [w, h, px]
    cfg,            \* the keyword arguments of extract_colors
    pc,             \* position in extract_colors
    dist,           \* Counter(data): color -> pixel count
    n_pixels,       \* mul(*im.size)
    to_canonical,   \* dict: color -> canonical color
    aggregated,     \* Counter: canonical color -> accumulated count
    entered,        \* the keys of aggregated in the order they were added
    sorted_cols,    \* the histogram entries the loop has still to process
    cur,            \* loop locals of the last iteration: [c, n, d, nearest]
    ranked,         \* colors as sorted at lines 141-144
    foreground,     \* colors as returned by detect_background
    bg_detected,    \* bg_color as returned by detect_background
    sat_kept,       \* colors after the saturation filter (lines 149-156)
    bg_color,       \* bg_color after line 151
    cut,            \* colors after lines 159-160
    result          \* the returned list of hex strings

vars == <<im, cfg, pc, dist, n_pixels, to_canonical, aggregated, entered,
          sorted_cols, cur, ranked, foreground, bg_detected, sat_kept,
          bg_color, cut, result>>

\* Python's None
None == <<>>

-----------------------------------------------------------------------------
(* Colors *)

WHITE == <<255, 255, 255>>
BLACK == <<0, 0, 0>>

OFFWHITE == <<250, 250, 245>>
GRAY     == <<128, 128, 128>>
RED      == <<255, 0, 0>>
CRIMSON  == <<255, 0, 64>>
PINK     == <<255, 0, 128>>
BLUE     == <<0, 0, 255>>
GREEN    == <<0, 255, 0>>
YELLOW   == <<255, 255, 0>>
CYAN     == <<0, 255, 255>>
MAGENTA  == <<255, 0, 255>>

\* the colors the small images are painted with
CorePalette == {WHITE, BLACK, OFFWHITE, GRAY, RED, CRIMSON, PINK}

\* saturated colors no two of which are closer than MIN_DISTANCE
Rainbow == <<RED, PINK, BLUE, CYAN, GREEN, YELLOW, MAGENTA>>

\* Python's tuple comparison a < b
TupleLess(a, b) ==
    \/ a[1] < b[1]
    \/ a[1] = b[1] /\ a[2] < b[2]
    \/ a[1] = b[1] /\ a[2] = b[2] /\ a[3] < b[3]

Max2(a, b) == IF a >= b THEN a ELSE b
Min2(a, b) == IF a <= b THEN a ELSE b

\* algorithm tuning defaults: MIN_DISTANCE 10.0, MIN_PROMINENCE 0.01 (in
\* percent), MIN_SATURATION 0.05 (in per mille), MAX_COLORS 5,
\* BACKGROUND_PROMINENCE 0.4 (in percent)
MIN_DISTANCE == 10
MIN_PROMINENCE == 1
MIN_SATURATION == 50
MAX_COLORS == 5
BACKGROUND_PROMINENCE == 40

\* the distance of two colors that are not listed in NearTable
FarDistance == 60

\* The perceptual distances of the color pairs that are close.  The CMC
\* formula itself is the library's; the model fixes a symmetric table.
NearTable ==
    << <<OFFWHITE, WHITE, 4>>,
       <<CRIMSON, RED, 8>>,
       <<CRIMSON, PINK, 8>>,
       <<RED, PINK, 16>>,
       <<BLUE, CYAN, 10>>,
       <<GRAY, WHITE, 30>>,
       <<GRAY, BLACK, 32>>,
       <<GRAY, OFFWHITE, 28>>,
       <<WHITE, BLACK, 34>> >>

distance(c1, c2) ==
    IF c1 = c2 THEN 0
    ELSE LET hits == {i \in 1..Len(NearTable) :
                        \/ NearTable[i][1] = c1 /\ NearTable[i][2] = c2
                        \/ NearTable[i][1] = c2 /\ NearTable[i][2] = c1}
         IN  IF hits = {} THEN FarDistance
             ELSE NearTable[CHOOSE i \in hits : TRUE][3]

HexDigits == <<"0", "1", "2", "3", "4", "5", "6", "7",
               "8", "9", "a", "b", "c", "d", "e", "f">>

\* '%.02x' of one channel
Hex2(n) == <<HexDigits[(n \div 16) + 1], HexDigits[(n % 16) + 1]>>

rgb_to_hex(color) == Hex2(color[1]) \o Hex2(color[2]) \o Hex2(color[3])

\* colorsys.rgb_to_hsv(*norm_color(c))[1] > threshold, threshold in per mille.
\* The saturation is (max - min) / max, and 0 for black.
SaturationAbove(value, threshold) ==
    LET maxc == Max2(value[1], Max2(value[2], value[3]))
        minc == Min2(value[1], Min2(value[2], value[3]))
    IN  IF maxc = 0 THEN 0 > threshold
        ELSE 1000 * (maxc - minc) > threshold * maxc

meets_min_saturation(c, threshold) == SaturationAbove(c.value, threshold)

-----------------------------------------------------------------------------
(* Sequences, slices and fractions *)

\* Python's s[:k]
Prefix(s, k) ==
    IF k >= 0 THEN SubSeq(s, 1, Min2(k, Len(s)))
    ELSE SubSeq(s, 1, Max2(Len(s) + k, 0))

\* Python's s[1:]
Rest(s) == IF s = <<>> THEN <<>> ELSE Tail(s)

\* [s[i] for i in range(len(s)) if i in keep]: the entries of s whose index
\* is in keep, in the order of s
RECURSIVE Select(_, _)
Select(s, keep) ==
    IF s = <<>> THEN <<>>
    ELSE LET rest == Select(Tail(s), {i - 1 : i \in keep \ {1}})
         IN  IF 1 \in keep THEN <<Head(s)>> \o rest ELSE rest

\* n / float(d)
Frac(n, d) == [num |-> n, den |-> d]

\* p >= q * percent / 100 for fractions p, q
FracGeqScaled(p, q, percent) ==
    p.num * q.den * 100 >= q.num * percent * p.den

\* sorted(..., reverse=True) puts a before b when key(a) >= key(b)
InOrder(ka, kb) == ka >= kb

\* Every result sorted(S, key=..., reverse=True) can have, key being the
\* function S -> Int: the sort is stable and the order of equal keys is the
\* iteration order of the dict, which is any.
RECURSIVE SortedDesc(_, _)
SortedDesc(S, key) ==
    IF S = {} THEN {<<>>}
    ELSE LET first == {x \in S : \A y \in S : InOrder(key[x], key[y])}
         IN  UNION {{<<x>> \o t : t \in SortedDesc(S \ {x}, key)} : x \in first}

-----------------------------------------------------------------------------
(* Images *)

\* im.getpixel((x, y)); px is im.getdata(), row by row
getpixel(image, p) == image.px[p[2] * image.w + p[1] + 1]

\* Counter(data)
Counter(s) ==
    LET keys == {s[i] : i \in 1..Len(s)}
    IN  [k \in keys |-> Cardinality({i \in 1..Len(s) : s[i] = k})]

\* the largest side of a tiled image, the largest number of colors of a
\* stair image painted with the core palette and with the rainbow, the side
\* of a framed image
MaxSide == 2
MaxStair == 3
MaxRainbow == 6
FrameSide == 10

\* a w x h image painted row by row with a and b in turn
Tiled(w, h, a, b) ==
    [w |-> w, h |-> h,
     px |-> [j \in 1..(w * h) |-> IF j % 2 = 1 THEN a ELSE b]]

\* An image of n (n + 1) / 2 pixels painted row by row with n pixels of
\* seq[1], then n - 1 pixels of seq[2], ... and 1 pixel of seq[n]: no two
\* colors have the same count.
Stairs(seq) ==
    LET n == Len(seq)
        w == IF n % 2 = 0 THEN n + 1 ELSE n
        h == IF n % 2 = 0 THEN n \div 2 ELSE (n + 1) \div 2
        upto(i) == i * n - (i * (i - 1)) \div 2
    IN  [w |-> w, h |-> h,
         px |-> [j \in 1..(w * h) |->
                   seq[CHOOSE i \in 1..n :
                         j <= upto(i) /\ (i = 1 \/ j > upto(i - 1))]]]

\* a w x h image with a 1-pixel border of color b around an interior whose
\* left part has color i1 and whose right part has color i2
Framed(w, h, b, i1, i2) ==
    [w |-> w, h |-> h,
     px |-> [j \in 1..(w * h) |->
               LET x == (j - 1) % w
                   y == (j - 1) \div w
               IN  IF x = 0 \/ y = 0 \/ x = w - 1 \/ y = h - 1 THEN b
                   ELSE IF x < w \div 2 THEN i1 ELSE i2]]

Injective(seq) ==
    \A i \in 1..Len(seq) : \A j \in 1..Len(seq) : seq[i] = seq[j] => i = j

StairSeqs ==
    {seq \in UNION {[1..n -> CorePalette] : n \in 1..MaxStair} : Injective(seq)}
      \cup {SubSeq(Rainbow, 1, n) : n \in 1..MaxRainbow}

FrameColors == {WHITE, OFFWHITE, RED, BLUE}

Images ==
    {Stairs(seq) : seq \in StairSeqs}
      \cup {Tiled(s, s, a, b) : s \in 1..MaxSide, a \in CorePalette,
                                b \in CorePalette}
      \cup {Framed(FrameSide, FrameSide, b, i1, i2) :
              b \in FrameColors, i1 \in FrameColors, i2 \in FrameColors}

\* the keyword arguments extract_colors is called with: the defaults, one
\* argument changed, all arguments changed
Defaults ==
    [min_saturation |-> MIN_SATURATION, min_distance |-> MIN_DISTANCE,
     max_colors |-> MAX_COLORS, min_prominence |-> MIN_PROMINENCE]

Configs ==
    {Defaults,
     [Defaults EXCEPT !.min_saturation = 0],
     [Defaults EXCEPT !.min_distance = 40],
     [Defaults EXCEPT !.max_colors = 6],
     [Defaults EXCEPT !.max_colors = 1],
     [Defaults EXCEPT !.min_prominence = 50],
     [Defaults EXCEPT !.min_prominence = 100],
     [min_saturation |-> -1, min_distance |-> 40, max_colors |-> 6,
      min_prominence |-> 0]}

-----------------------------------------------------------------------------
(* extract_colors *)

Color(value, prominence) == [value |-> value, prominence |-> prominence]

NoLocals ==
    [c |-> None, n |-> 0, d |-> None, nearest |-> None, branch |-> "none"]

Init ==
    /\ im \in Images
    /\ cfg \in Configs
    /\ pc = "count"
    /\ dist = <<>>
    /\ n_pixels = 0
    /\ to_canonical = <<>>
    /\ aggregated = <<>>
    /\ entered = <<>>
    /\ sorted_cols = <<>>
    /\ cur = NoLocals
    /\ ranked = <<>>
    /\ foreground = <<>>
    /\ bg_detected = None
    /\ sat_kept = <<>>
    /\ bg_color = None
    /\ cut = <<>>
    /\ result = <<>>

\* sorted by ascending count
SortedColsAscending(counted) ==
    {[i \in 1..Len(order) |->
        <<order[Len(order) + 1 - i], counted[order[Len(order) + 1 - i]]>>] :
        order \in SortedDesc(DOMAIN counted, counted)}

\* line 124: sorted(dist.iteritems(), key=itemgetter(1), reverse=True)
SortedCols(counted) ==
    {[i \in 1..Len(order) |-> <<order[i], counted[order[i]]>>] :
        order \in SortedDesc(DOMAIN counted, counted)}

\* lines 117-124: the histogram, the two seeded sentinels and the histogram
\* entries sorted by descending count
CountPixels ==
    /\ pc = "count"
    /\ dist' = Counter(im.px)
    /\ sorted_cols' \in SortedCols(Counter(im.px))
    /\ n_pixels' = im.w * im.h
    /\ to_canonical' = (WHITE :> WHITE) @@ (BLACK :> BLACK)
    /\ aggregated' = (WHITE :> 0) @@ (BLACK :> 0)
    /\ entered' = <<WHITE, BLACK>>
    /\ pc' = "aggregate"
    /\ UNCHANGED <<im, cfg, cur, ranked, foreground, bg_detected, sat_kept,
                   bg_color, cut, result>>

\* the least distance, and among the colors at that distance the one added
\* first
NearestFirstEntered(c, keys) ==
    LET d == CHOOSE x \in {distance(c, alt) : alt \in keys} :
                 \A alt \in keys : x <= distance(c, alt)
        ties == {alt \in keys : distance(c, alt) = d}
    IN  <<d, entered[CHOOSE i \in 1..Len(entered) :
                       /\ entered[i] \in ties
                       /\ \A j \in 1..(i - 1) : entered[j] \notin ties]>>

\* line 130: min((distance(c, alt), alt) for alt in aggregated), a minimum of
\* (distance, color) tuples: the least distance, and among the colors at that
\* distance the least tuple
Nearest(c, keys) ==
    LET d == CHOOSE x \in {distance(c, alt) : alt \in keys} :
                 \A alt \in keys : x <= distance(c, alt)
        ties == {alt \in keys : distance(c, alt) = d}
    IN  <<d, CHOOSE alt \in ties : \A o \in ties : alt = o \/ TupleLess(alt, o)>>

\* <= in place of <
IsNearbyOrEqual(d, min_distance) == d <= min_distance

\* line 131
IsNearby(d, min_distance) == d < min_distance

\* line 134
FoldInto(map, c, nearest) == (c :> nearest) @@ map

\* the map is left as it is
PromoteForgotten(map, c) == map

\* line 138
Promote(map, c) == (c :> c) @@ map

\* lines 125-138: one iteration of the aggregation loop
Aggregate ==
    /\ pc = "aggregate"
    /\ sorted_cols # <<>>
    /\ LET c == Head(sorted_cols)[1]
           n == Head(sorted_cols)[2]
       IN  IF c \in DOMAIN aggregated
           THEN \* exact match
                /\ aggregated' = [aggregated EXCEPT ![c] = @ + n]
                /\ cur' = [cur EXCEPT !.c = c, !.n = n, !.branch = "exact"]
                /\ UNCHANGED <<to_canonical, entered>>
           ELSE LET m == Nearest(c, DOMAIN aggregated)
                    d == m[1]
                    nearest == m[2]
                IN  IF IsNearby(d, cfg.min_distance)
                    THEN \* nearby match
                         /\ aggregated' = [aggregated EXCEPT ![nearest] = @ + n]
                         /\ to_canonical' = FoldInto(to_canonical, c, nearest)
                         /\ cur' = [c |-> c, n |-> n, d |-> d,
                                    nearest |-> nearest, branch |-> "nearby"]
                         /\ UNCHANGED entered
                    ELSE \* no nearby match
                         /\ aggregated' = (c :> n) @@ aggregated
                         /\ to_canonical' = Promote(to_canonical, c)
                         /\ cur' = [c |-> c, n |-> n, d |-> d,
                                    nearest |-> nearest, branch |-> "new"]
                         /\ entered' = Append(entered, c)
    /\ sorted_cols' = Tail(sorted_cols)
    /\ UNCHANGED <<im, cfg, pc, dist, n_pixels, ranked, foreground,
                   bg_detected, sat_kept, bg_color, cut, result>>

\* lines 141-144: the canonical colors by descending prominence
Rank ==
    /\ pc = "aggregate"
    /\ sorted_cols = <<>>
    /\ \E order \in SortedDesc(DOMAIN aggregated, aggregated) :
         ranked' = [i \in 1..Len(order) |->
                      Color(order[i], Frac(aggregated[order[i]], n_pixels))]
    /\ pc' = "detect"
    /\ UNCHANGED <<im, cfg, dist, n_pixels, to_canonical, aggregated, entered,
                   sorted_cols, cur, foreground, bg_detected, sat_kept,
                   bg_color, cut, result>>

\* > in place of >=
IsDominantStrict(top) ==
    top.prominence.num * 100 > BACKGROUND_PROMINENCE * top.prominence.den

\* line 67: colors[0].prominence >= BACKGROUND_PROMINENCE
IsDominant(top) ==
    top.prominence.num * 100 >= BACKGROUND_PROMINENCE * top.prominence.den

\* line 68: the foreground of the dominant-fill branch
DominantForeground(colors) == Rest(colors)

\* lines 71-73: the 8 sampled points, with Python 2's integer division
Points(image) ==
    LET w == image.w
        h == image.h
    IN  << <<0, 0>>, <<0, h \div 2>>, <<0, h - 1>>, <<w \div 2, h - 1>>,
           <<w - 1, h - 1>>, <<w - 1, h \div 2>>, <<w - 1, 0>>,
           <<w \div 2, 0>> >>

\* line 74
EdgeDist(image) ==
    Counter([i \in 1..8 |-> getpixel(image, Points(image)[i])])

\* line 76: the results edge_dist.most_common(1) can have
MostCommon(edge_dist) ==
    {<<col, edge_dist[col]>> : col \in
        {x \in DOMAIN edge_dist :
            \A y \in DOMAIN edge_dist : edge_dist[x] >= edge_dist[y]}}

\* line 77
HasMajority(majority_count) == majority_count >= 3

\* the majority color itself
CanonicalBgRaw(map, majority_col) == majority_col

\* line 79: the canonical color of the border's majority color
CanonicalBg(map, majority_col) == map[majority_col]

\* lines 65-86: detect_background(im, colors, to_canonical), called at
\* line 146.  A failed lookup or unpacking raises.
DetectBackground ==
    /\ pc = "detect"
    /\ IF ranked = <<>>
       THEN /\ pc' = "raised"
            /\ UNCHANGED <<foreground, bg_detected>>
       ELSE IF IsDominant(ranked[1])
       THEN /\ foreground' = DominantForeground(ranked)
            /\ bg_detected' = ranked[1]
            /\ pc' = "saturation"
       ELSE \E most \in MostCommon(EdgeDist(im)) :
            LET majority_col == most[1]
                majority_count == most[2]
            IN  IF HasMajority(majority_count)
                THEN IF majority_col \notin DOMAIN to_canonical
                     THEN /\ pc' = "raised"
                          /\ UNCHANGED <<foreground, bg_detected>>
                     ELSE LET canonical_bg == CanonicalBg(to_canonical, majority_col)
                              hits == {i \in 1..Len(ranked) :
                                         ranked[i].value = canonical_bg}
                          IN  IF Cardinality(hits) # 1
                              THEN /\ pc' = "raised"
                                   /\ UNCHANGED <<foreground, bg_detected>>
                              ELSE /\ bg_detected' = ranked[CHOOSE i \in hits : TRUE]
                                   /\ foreground' =
                                        Select(ranked, (1..Len(ranked)) \ hits)
                                   /\ pc' = "saturation"
                ELSE /\ bg_detected' = None
                     /\ foreground' = ranked
                     /\ pc' = "saturation"
    /\ UNCHANGED <<im, cfg, dist, n_pixels, to_canonical, aggregated, entered,
                   sorted_cols, cur, ranked, sat_kept, bg_color, cut, result>>

\* keeps the whole list
SaturationFallbackAll(colors) == colors

\* keeps nothing
SaturationFallbackNone(colors) == <<>>

\* line 156: keep at least one color
SaturationFallback(colors) == Prefix(colors, 1)

\* lines 149-156
SaturationFilter ==
    /\ pc = "saturation"
    /\ LET sat_colors ==
               Select(foreground,
                      {i \in 1..Len(foreground) :
                         meets_min_saturation(foreground[i], cfg.min_saturation)})
       IN  sat_kept' = IF sat_colors # <<>> THEN sat_colors
                       ELSE SaturationFallback(foreground)
    /\ bg_color' = IF /\ bg_detected # None
                      /\ ~meets_min_saturation(bg_detected, cfg.min_saturation)
                   THEN None ELSE bg_detected
    /\ pc' = "prominence"
    /\ UNCHANGED <<im, cfg, dist, n_pixels, to_canonical, aggregated, entered,
                   sorted_cols, cur, ranked, foreground, bg_detected, cut,
                   result>>

\* lines 159-160.  colors[0] is read once for every element of colors, so
\* an empty list raises nothing.
ProminenceCut ==
    /\ pc = "prominence"
    /\ cut' = Prefix(Select(sat_kept,
                            {i \in 1..Len(sat_kept) :
                               FracGeqScaled(sat_kept[i].prominence,
                                             sat_kept[1].prominence,
                                             cfg.min_prominence)}),
                     cfg.max_colors)
    /\ pc' = "return"
    /\ UNCHANGED <<im, cfg, dist, n_pixels, to_canonical, aggregated, entered,
                   sorted_cols, cur, ranked, foreground, bg_detected, sat_kept,
                   bg_color, result>>

\* the same cap of 5 for every length
FinalCountFlat(n) == 5

\* line 164: (5, 3)[len(palette.colors) < 5]
FinalCount(n) == IF n < 5 THEN 3 ELSE 5

\* lines 162-164
Return ==
    /\ pc = "return"
    /\ LET shown == Prefix(cut, FinalCount(Len(cut)))
       IN  result' = [i \in 1..Len(shown) |-> rgb_to_hex(shown[i].value)]
    /\ pc' = "done"
    /\ UNCHANGED <<im, cfg, dist, n_pixels, to_canonical, aggregated, entered,
                   sorted_cols, cur, ranked, foreground, bg_detected, sat_kept,
                   bg_color, cut>>

Next ==
    \/ CountPixels
    \/ Aggregate
    \/ Rank
    \/ DetectBackground
    \/ SaturationFilter
    \/ ProminenceCut
    \/ Return

Spec == Init /\ [][Next]_vars

-----------------------------------------------------------------------------
(* Properties *)

AfterDetect == pc \in {"saturation", "prominence", "return", "done"}
AfterSaturation == pc \in {"prominence", "return", "done"}

Values(colors) == {colors[i].value : i \in 1..Len(colors)}

\* C1: the returned list is made of the first 3 colors of the list that
\* leaves the prominence/count cut when that list has fewer than 5 colors and
\* of its first 5 colors otherwise, in the same order; 4 colors give 3, 6
\* colors give 5, and 4 colors are never returned.
C1_FinalTruncation ==
    pc = "done" =>
        /\ Len(result) = IF Len(cut) < 5 THEN Min2(3, Len(cut)) ELSE 5
        /\ \A i \in 1..Len(result) : result[i] = rgb_to_hex(cut[i].value)
        /\ Len(cut) = 4 => Len(result) = 3
        /\ Len(cut) = 6 => Len(result) = 5
        /\ Len(result) # 4

C1_Witness == pc = "done" /\ Len(cut) = 6 /\ Len(result) = 5

AllUnsaturated(colors) ==
    \A i \in 1..Len(colors) :
        ~SaturationAbove(colors[i].value, cfg.min_saturation)

\* C2: when no color of the foreground list returned by detect_background
\* is saturated above min_saturation, the saturation filter keeps exactly
\* one color, the first of that list, and never none.
C2_SaturationFallback ==
    (AfterSaturation /\ AllUnsaturated(foreground)) =>
        /\ foreground # <<>>
        /\ sat_kept = <<foreground[1]>>

C2_Witness ==
    /\ pc = "prominence"
    /\ Len(foreground) >= 2
    /\ AllUnsaturated(foreground)
    /\ foreground[1].prominence.num > 0
    /\ sat_kept = <<foreground[1]>>

\* the first ranked color covers at least 0.4 of the image
TopIsDominant ==
    /\ ranked # <<>>
    /\ 10 * ranked[1].prominence.num >= 4 * ranked[1].prominence.den

\* C3: when the first ranked color has a prominence of at least 0.4,
\* detect_background returns it as the background and the rest of the ranked
\* list, in the same order and without it, as the foreground, whatever the
\* border samples are.
C3_DominantFill ==
    (pc \notin {"count", "aggregate", "detect"} /\ TopIsDominant) =>
        /\ pc # "raised"
        /\ bg_detected = ranked[1]
        /\ foreground = Tail(ranked)
        /\ ranked[1].value \notin Values(foreground)

\* the dominant color is the background although the border's majority color
\* belongs to another cluster
C3_Witness ==
    /\ pc = "saturation"
    /\ TopIsDominant
    /\ bg_detected = ranked[1]
    /\ \E most \in MostCommon(EdgeDist(im)) :
         /\ most[2] >= 3
         /\ to_canonical[most[1]] # ranked[1].value

\* the pixels of the 1-pixel border all have the color of the pixel (0, 0)
UniformBorder ==
    \A x \in 0..(im.w - 1) : \A y \in 0..(im.h - 1) :
        (x = 0 \/ y = 0 \/ x = im.w - 1 \/ y = im.h - 1) =>
            getpixel(im, <<x, y>>) = getpixel(im, <<0, 0>>)

BorderColor == getpixel(im, <<0, 0>>)

\* C4 as stated: whenever the border is of one color B, detect_background
\* returns the canonical color of B as the background.
C4_BorderMajority_AsStated ==
    (pc \notin {"count", "aggregate", "detect"} /\ UniformBorder) =>
        /\ bg_detected # None
        /\ bg_detected.value = to_canonical[BorderColor]

\* C4: when the border is of one color B and no color has a prominence of
\* at least 0.4, detect_background returns the canonical color of B as the
\* background; when a color has such a prominence, the background is that
\* color, the first of the ranked list, whatever B is.
C4_BorderMajority ==
    (pc \notin {"count", "aggregate", "detect"} /\ UniformBorder) =>
        /\ pc # "raised"
        /\ bg_detected # None
        /\ TopIsDominant => bg_detected = ranked[1]
        /\ ~TopIsDominant =>
             /\ BorderColor \in DOMAIN to_canonical
             /\ bg_detected.value = to_canonical[BorderColor]
             /\ bg_detected.value \notin Values(foreground)

\* a border whose color was folded into another one decides the background
C4_Witness ==
    /\ pc = "saturation"
    /\ UniformBorder
    /\ ~TopIsDominant
    /\ to_canonical[BorderColor] # BorderColor
    /\ bg_detected.value = to_canonical[BorderColor]

SolidRed == \A j \in 1..Len(im.px) : im.px[j] = RED

\* C5 as stated: for an image of the single color red, red is the
\* background, the foreground left by detect_background is empty and the
\* returned list is empty.
C5_SolidRed_AsStated ==
    (pc = "done" /\ SolidRed) =>
        /\ bg_detected # None
        /\ bg_detected.value = RED
        /\ foreground = <<>>
        /\ result = <<>>

\* C5: for an image of the single color red, red is the background, the
\* foreground left by detect_background holds the two seeded colors white
\* and black with prominence 0, and the returned list is not empty: it
\* starts with the first of them and, when min_saturation is not negative,
\* holds nothing else (red being at least min_distance away from white and
\* black, and max_colors at least 1).
C5_SolidRed ==
    (/\ pc = "done"
     /\ SolidRed
     /\ distance(RED, WHITE) >= cfg.min_distance
     /\ distance(RED, BLACK) >= cfg.min_distance
     /\ cfg.max_colors >= 1) =>
        /\ bg_detected = Color(RED, Frac(n_pixels, n_pixels))
        /\ bg_color = bg_detected
        /\ Len(foreground) = 2
        /\ Values(foreground) = {WHITE, BLACK}
        /\ \A i \in 1..2 : foreground[i].prominence.num = 0
        /\ result # <<>>
        /\ result[1] = rgb_to_hex(foreground[1].value)
        /\ \A i \in 1..Len(result) :
             result[i] \in {<<"f", "f", "f", "f", "f", "f">>,
                            <<"0", "0", "0", "0", "0", "0">>}
        /\ cfg.min_saturation >= 0 => Len(result) = 1

C5_Witness ==
    /\ pc = "done"
    /\ SolidRed
    /\ n_pixels > 1
    /\ cfg = Defaults
    /\ Len(result) = 1

\* C6: the foreground list is not empty after detect_background nor after
\* the saturation filter, no lookup raises, and at least one color is
\* returned.
C6_NoEmptyPalette ==
    /\ pc # "raised"
    /\ pc = "detect" => ranked # <<>>
    /\ AfterDetect => foreground # <<>>
    /\ AfterSaturation => sat_kept # <<>>
    /\ pc \in {"return", "done"} => cut # <<>>
    /\ pc = "done" => Len(result) >= 1

\* the background took the only color of the image with pixels, and a
\* color is returned all the same
C6_Witness ==
    /\ pc = "done"
    /\ bg_detected # None
    /\ \A i \in 1..Len(foreground) : foreground[i].prominence.num = 0
    /\ Len(result) = 1

\* the histogram colors the loop has processed
Processed ==
    IF pc = "count" THEN {}
    ELSE DOMAIN dist \ {sorted_cols[i][1] : i \in 1..Len(sorted_cols)}

\* C7: after every iteration every key of aggregated, white and black
\* among them, maps to itself in to_canonical, every processed color maps
\* to a key of aggregated, and detect_background raises nothing.
C7_CanonicalMap ==
    pc # "count" =>
        /\ {WHITE, BLACK} \subseteq DOMAIN aggregated
        /\ \A k \in DOMAIN aggregated :
             k \in DOMAIN to_canonical /\ to_canonical[k] = k
        /\ \A c \in Processed :
             c \in DOMAIN to_canonical /\ to_canonical[c] \in DOMAIN aggregated
        /\ pc # "raised"

\* a promoted color and a folded color
C7_Witness ==
    /\ pc = "detect"
    /\ \E c \in Processed : to_canonical[c] # c
    /\ \E k \in Processed : to_canonical[k] = k /\ k \notin {WHITE, BLACK}

\* the pixel count of a color in the histogram
HistCount(c) == IF c \in DOMAIN dist THEN dist[c] ELSE 0

\* C8 as stated: the representative of every cluster has at least the pixel
\* count of every color of the cluster.
C8_Representative_AsStated ==
    pc # "count" =>
        \A c \in Processed : HistCount(to_canonical[c]) >= dist[c]

\* C8: the representative of every cluster, unless it is one of the seeded
\* colors white and black, has at least the pixel count of every color of the
\* cluster.
C8_Representative ==
    pc # "count" =>
        \A c \in Processed :
            to_canonical[c] \notin {WHITE, BLACK} =>
                /\ to_canonical[c] \in DOMAIN dist
                /\ dist[to_canonical[c]] >= dist[c]

C8_Witness ==
    /\ pc = "detect"
    /\ \E c \in Processed :
         /\ to_canonical[c] \notin {c, WHITE, BLACK}
         /\ dist[to_canonical[c]] > dist[c]

\* the canonical colors the last iteration compared its color with, and
\* those of them at the least distance
Compared == DOMAIN aggregated \ {cur.c}
Tied == {k \in Compared : \A o \in Compared :
            distance(cur.c, k) <= distance(cur.c, o)}
Searched == cur.branch \in {"nearby", "new"}

\* the first color of set S in the order the canonical colors were added
FirstEntered(S) ==
    entered[CHOOSE i \in 1..Len(entered) :
              /\ entered[i] \in S
              /\ \A j \in 1..(i - 1) : entered[j] \notin S]

\* C9 as stated, on a color that is folded: of several canonical colors at
\* the same least distance the one added first is the nearest, into which
\* the color is folded.
C9_TieBreak_AsStated ==
    (cur.branch = "nearby" /\ Cardinality(Tied) >= 2) =>
        to_canonical[cur.c] = FirstEntered(Tied)

\* C9: of several canonical colors at the same least distance the one with
\* the least (r, g, b) tuple is the nearest.
C9_TieBreak ==
    Searched =>
        /\ cur.nearest \in Tied
        /\ cur.d = distance(cur.c, cur.nearest)
        /\ \A k \in Tied : k = cur.nearest \/ TupleLess(cur.nearest, k)

\* a tie that folds the color into the canonical color added last
C9_Witness ==
    /\ cur.branch = "nearby"
    /\ Cardinality(Tied) >= 2
    /\ cur.nearest # FirstEntered(Tied)
    /\ to_canonical[cur.c] = cur.nearest

\* two canonical colors other than white and black are at least
\* min_distance apart and every folded color is closer than min_distance to
\* its canonical color
Separated ==
    /\ \A k1 \in DOMAIN aggregated : \A k2 \in DOMAIN aggregated :
         (k1 # k2 /\ {k1, k2} # {WHITE, BLACK}) =>
             distance(k1, k2) >= cfg.min_distance
    /\ \A c \in DOMAIN to_canonical :
         to_canonical[c] # c =>
             distance(c, to_canonical[c]) < cfg.min_distance

\* C10 as stated: after every iteration the canonical colors are separated,
\* and no two returned colors are closer than min_distance.
C10_Separation_AsStated ==
    pc # "count" =>
        /\ Separated
        /\ pc = "done" =>
             \A i \in 1..Len(result) : \A j \in 1..Len(result) :
                 i # j => distance(cut[i].value, cut[j].value)
                            >= cfg.min_distance

\* C10: after every iteration the canonical colors are separated, and no
\* two returned colors other than white and black are closer than
\* min_distance.
C10_Separation ==
    pc # "count" =>
        /\ Separated
        /\ pc = "done" =>
             /\ \A i \in 1..Len(result) : result[i] = rgb_to_hex(cut[i].value)
             /\ \A i \in 1..Len(result) : \A j \in 1..Len(result) :
                  (i # j /\ {cut[i].value, cut[j].value} # {WHITE, BLACK}) =>
                      distance(cut[i].value, cut[j].value) >= cfg.min_distance

\* two returned colors exactly min_distance apart
C10_Witness ==
    /\ pc = "done"
    /\ \E i \in 1..Len(result) : \E j \in 1..Len(result) :
         i # j /\ distance(cut[i].value, cut[j].value) = cfg.min_distance

=============================================================================
